---- MODULE Spec2Model ----
(***************************************************************************)
(* Replicated file-integrity ledger: the commit pipeline of one node.      *)
(*                                                                         *)
(* The repository holds two node programs.  backend/cmd/node.py drives the *)
(* PBFTNode class of backend/consensus.py; backend/node.py carries its own *)
(* copy of the three handlers over a module-level consensus_state.  The    *)
(* variable app says which program the modelled processes run.             *)
(*                                                                         *)
(* Spec        one deployed replica; its peers and clients are the         *)
(*             environment, which may hand it any phase message.           *)
(* SpecCluster TOTAL_NODES replicas that all run the code, joined by       *)
(*             per-link FIFO streams; nothing else talks to them.          *)
(***************************************************************************)
EXTENDS Integers, Sequences, FiniteSets, Bags, TLC

VARIABLES
    app,                \* "cmd" (cmd/node.py + consensus.py) or "node" (node.py)
    HAS_BLS,            \* consensus.py: blspy importable in this build
    total_nodes,        \* TOTAL_NODES of the deployment
    peers,              \* len(PEERS) of the deployment
    deployed,           \* node ids whose process is part of the model
    started,            \* startup_event has run
    trust,              \* result of the last get_node_trust_level, "none" before
    view,               \* PBFTNode.view / consensus_state['view']
    sequence_number,
    current_digest,
    prepare_messages,
    commit_messages,
    prepared_digests,
    committed_digests,
    connections,        \* PBFTNode.connections / peer_connections (peer ids)
    tasks,              \* broadcasts suspended at "await connection.send"
    wire,               \* wire[src][dst]: frames sent and not yet read
    emitted,            \* observer: bag of the broadcasts begun, keyed by phase,
                        \* digest and the view and sequence_number they were made at
    prepare_cause,      \* observer: senders of the PRE_PREPAREs answered by a PREPARE
    emitted_untrusted,  \* observer: PREPARE/COMMIT broadcasts begun while untrusted
    sink_calls,         \* observer: invocations of the commit callback, in order
    call,               \* the latest call of a library function: name, arguments, result
    USE_SIMULATED_TPM,  \* cmd/node.py: the environment's USE_SIMULATED_TPM
    attestation_verifier, \* the AttestationVerifier object: trusted_nodes
    verifier_calls,     \* observer: the add_trusted_node and quarantine_node calls made
    agent,              \* the BlockchainFileAgent: running, its monitor's
                        \* last_merkle_root, retry_count and position of
                        \* connect_and_monitor_blockchain
    watched,            \* the Merkle root of the files under WATCH_PATHS
    agent_log,          \* observer: connection attempts and roots sent by the agent
    db                  \* the tables the commit callback writes

\* what no step of a node changes: the deployment, and the library call record
sidevars == <<attestation_verifier, verifier_calls, agent, watched, agent_log, db>>
deployvars == <<app, HAS_BLS, USE_SIMULATED_TPM, total_nodes, peers, deployed,
                sidevars>>
cfgvars == <<deployvars, call>>
nodevars == <<started, trust, view, sequence_number, current_digest,
              prepare_messages, commit_messages, prepared_digests,
              committed_digests, connections, tasks, emitted, prepare_cause,
              emitted_untrusted, sink_calls>>
vars == <<cfgvars, nodevars, wire>>

(***************************************************************************)
(* Program constants and model bounds                                      *)
(***************************************************************************)
TOTAL_NODES == 4

MaxLoad == 3
MaxTasks == 1
MaxWire == 2
MaxLeaves == 4
MaxFrames == 2
MaxCalls == 3
MaxAttempts == 4

Nodes == 0..(TOTAL_NODES - 1)
NodeCounts == {1, 3, TOTAL_NODES}
Digests == {"d1", "d2"}
Views == {0}
InboundSequences == {1}
Phases == {"pre_prepare", "prepare", "commit"}
NoDigest == "None"
NoCall == [fn |-> "none"]

(***************************************************************************)
(* Signature layer (consensus.py BLSManager), keys and signatures symbolic *)
(***************************************************************************)
Key(kind, id) == [kind |-> kind, id |-> id]
NoKey == Key("none", 0)

private_key(n) == Key("sk", n)
public_key(n) == Key("pk", n)

sign(n, message) ==
    [scheme |-> IF HAS_BLS THEN "bls" ELSE "sha256",
     key |-> private_key(n), message |-> message]

verify(pk, message, signature) ==
    IF HAS_BLS
    THEN /\ pk.kind = "pk"
         /\ signature.scheme = "bls"
         /\ signature.key = Key("sk", pk.id)
         /\ signature.message = message
    ELSE signature = [scheme |-> "sha256", key |-> pk, message |-> message]

message_bytes(phase, digest, v) == <<phase, digest, v>>

\* int(time.time() * 1000) where a message is built: no handler reads it back,
\* so one reading of the clock stands for all
time_ms == 0

Message(phase, digest, node_id, signature, timestamp, v) ==
    [phase |-> phase, digest |-> digest, node_id |-> node_id,
     signature |-> signature, timestamp |-> timestamp, view |-> v]

\* json.dumps of broadcast_message: the six fields it writes, and no public_key
to_json(message) ==
    [phase |-> message.phase, digest |-> message.digest,
     node_id |-> message.node_id, signature |-> message.signature,
     timestamp |-> message.timestamp, view |-> message.view]

\* data.get(key, default) of a decoded JSON object
get(data, key, default) == IF key \in DOMAIN data THEN data[key] ELSE default

\* the keys handle_message subscripts: a missing one raises KeyError
RequiredKeys == {"phase", "digest", "node_id", "signature", "timestamp"}

(***************************************************************************)
(* PBFTNode properties                                                     *)
(***************************************************************************)
single_node_mode(n) == total_nodes = 1 \/ peers = 0

is_primary(n) == (view[n] % total_nodes) = n

required_votes(n) ==
    IF single_node_mode(n) THEN 1
    ELSE (2 * ((total_nodes - 1) \div 3)) + 1

\* node.py: "@property def required_votes()" at module level is a property
\* object, not a number
node_required_votes ==
    [type |-> "property", fget |-> (2 * ((total_nodes - 1) \div 3)) + 1]

node_is_primary(n) == (view[n] % total_nodes) = n

(***************************************************************************)
(* Attestation (tpm_attest.py, simulated TPM)                              *)
(***************************************************************************)
MAX_SKEW_MS == 300000

\* a quote as verify_quote sees it: skew is abs(current_time - quote.timestamp)
\* in ms, pcr_match says every sampled PCR equals the baseline, sig_ok that the
\* signature is the one over nonce and PCR values
collect_quote(compromised) ==
    [pcr_match |-> ~compromised, skew |-> 0, sig_ok |-> TRUE,
     is_valid |-> ~compromised]

verify_quote(quote) ==
    IF quote.skew > MAX_SKEW_MS THEN FALSE
    ELSE IF ~quote.pcr_match THEN FALSE
    ELSE quote.sig_ok

get_node_trust_level(quote) ==
    IF ~verify_quote(quote) THEN "untrusted"
    ELSE IF quote.is_valid THEN "trusted" ELSE "suspicious"

\* AttestationVerifier: trusted_nodes is a dict from node id to baseline PCRs,
\* a baseline and a quote's pcr_values are dicts from PCR index to value
Abs(x) == IF x < 0 THEN 0 - x ELSE x

setitem(dict, key, value) ==
    [k \in DOMAIN dict \cup {key} |-> IF k = key THEN value ELSE dict[k]]

delitem(dict, key) == [k \in DOMAIN dict \ {key} |-> dict[k]]

add_trusted_node(verifier, node_id, baseline_pcrs) ==
    [verifier EXCEPT !.trusted_nodes = setitem(@, node_id, baseline_pcrs)]

quarantine_node(verifier, node_id) ==
    IF node_id \in DOMAIN verifier.trusted_nodes
    THEN [verifier EXCEPT !.trusted_nodes = delitem(@, node_id)]
    ELSE verifier

\* the PCR test as TPMManager.verify_quote makes it: a PCR the quote does not
\* carry is passed over
verify_node_quote_sampled(verifier, node_id, quote) ==
    IF node_id \notin DOMAIN verifier.trusted_nodes THEN FALSE
    ELSE IF Abs(time_ms - quote.timestamp) > MAX_SKEW_MS THEN FALSE
    ELSE \A pcr \in DOMAIN verifier.trusted_nodes[node_id] :
            pcr \in DOMAIN quote.pcr_values
                => quote.pcr_values[pcr] = verifier.trusted_nodes[node_id][pcr]

verify_node_quote(verifier, node_id, quote) ==
    IF node_id \notin DOMAIN verifier.trusted_nodes THEN FALSE
    ELSE IF Abs(time_ms - quote.timestamp) > MAX_SKEW_MS THEN FALSE
    ELSE \A pcr \in DOMAIN verifier.trusted_nodes[node_id] :
            /\ pcr \in DOMAIN quote.pcr_values
            /\ quote.pcr_values[pcr] = verifier.trusted_nodes[node_id][pcr]

\* cmd/node.py binds the manager to the local name tmp_manager, so the global
\* tpm_manager stays None there; node.py assigns the global
tpm_manager_bound == app = "node"

(***************************************************************************)
(* Merkle tree (merkle.py); a SHA-512 digest is the tuple of what was      *)
(* hashed, prefix first, so two digests are equal iff their inputs are     *)
(***************************************************************************)
LEAF_PREFIX == 0
NODE_PREFIX == 1

EmptyBytes == <<>>

hash(prefix, data) == <<prefix>> \o data

hash_leaf(data) == hash(LEAF_PREFIX, <<data>>)

hash_node(left, right) == hash(NODE_PREFIX, <<left, right>>)

\* the duplicate-last variant of the pairing loop
pair_or_duplicate(level, i) ==
    IF i + 1 = Len(level)
    THEN hash_node(level[i + 1], level[i + 1])
    ELSE hash_node(level[i + 1], level[i + 2])

\* one round of "for i in range(0, len(current_level), 2)", i counted from 0
pair_or_promote(level, i) ==
    IF i + 1 = Len(level)
    THEN level[i + 1]
    ELSE hash_node(level[i + 1], level[i + 2])

next_level(current_level) ==
    [k \in 1..((Len(current_level) + 1) \div 2) |->
        pair_or_promote(current_level, 2 * (k - 1))]

leaf_level(leaves) == [k \in DOMAIN leaves |-> hash_leaf(leaves[k])]

RECURSIVE root_loop(_)
root_loop(current_level) ==
    IF Len(current_level) > 1
    THEN root_loop(next_level(current_level))
    ELSE current_level

merkle_root(leaves) ==
    IF leaves = <<>> THEN EmptyBytes
    ELSE root_loop(leaf_level(leaves))[1]

\* list[k] of Python, k counted from 0: a negative k counts from the end, and
\* a k outside -len..len-1 raises IndexError
getitem_raises(list, k) == k >= Len(list) \/ k < 0 - Len(list)

getitem(list, k) == IF k >= 0 THEN list[k + 1] ELSE list[Len(list) + k + 1]

\* the element one round of the proof loop reads: none for an even index at
\* the end of the level
sibling_read(current_level, current_index) ==
    IF current_index % 2 = 0
    THEN IF current_index + 1 < Len(current_level)
         THEN <<current_index + 1>>
         ELSE <<>>
    ELSE <<current_index - 1>>

RECURSIVE proof_loop_raises(_, _)
proof_loop_raises(current_level, current_index) ==
    /\ Len(current_level) > 1
    /\ \/ \E k \in {sibling_read(current_level, current_index)[j] :
                        j \in DOMAIN sibling_read(current_level, current_index)} :
              getitem_raises(current_level, k)
       \/ proof_loop_raises(next_level(current_level), current_index \div 2)

RECURSIVE proof_loop(_, _)
proof_loop(current_level, current_index) ==
    IF Len(current_level) > 1
    THEN [j \in DOMAIN sibling_read(current_level, current_index) |->
             getitem(current_level, sibling_read(current_level, current_index)[j])]
         \o proof_loop(next_level(current_level), current_index \div 2)
    ELSE <<>>

\* merkle_proof ends in an IndexError
merkle_proof_raises(leaves, index) ==
    /\ ~(leaves = <<>> \/ index >= Len(leaves))
    /\ proof_loop_raises(leaf_level(leaves), index)

\* index is counted from 0; the value where the call returns one
merkle_proof(leaves, index) ==
    IF leaves = <<>> \/ index >= Len(leaves) THEN <<>>
    ELSE IF merkle_proof_raises(leaves, index) THEN <<>>
    ELSE proof_loop(leaf_level(leaves), index)

RECURSIVE verify_loop(_, _, _)
verify_loop(current_hash, proof, current_index) ==
    IF proof = <<>> THEN current_hash
    ELSE verify_loop(IF current_index % 2 = 0
                     THEN hash_node(current_hash, Head(proof))
                     ELSE hash_node(Head(proof), current_hash),
                     Tail(proof), current_index \div 2)

\* verify_proof with the comparison cut down to the first byte of the digests
verify_proof_truncated(leaf, proof, root, index) ==
    /\ root # EmptyBytes
    /\ verify_loop(hash_leaf(leaf), proof, index)[1] = root[1]

verify_proof(leaf, proof, root, index) ==
    verify_loop(hash_leaf(leaf), proof, index) = root

(***************************************************************************)
(* Helpers                                                                 *)
(***************************************************************************)
SortedSeq(S) ==
    CHOOSE s \in [1..Cardinality(S) -> S] :
        \A i, j \in 1..Cardinality(S) : i < j => s[i] < s[j]

RECURSIVE SumLen(_, _)
SumLen(f, D) ==
    IF D = {} THEN 0
    ELSE LET d == CHOOSE x \in D : TRUE
         IN Len(f[d]) + SumLen(f, D \ {d})

TotalVotes(n) ==
    SumLen(prepare_messages[n], Digests) + SumLen(commit_messages[n], Digests)

\* the broadcasts of one phase that replica n has begun
Emissions(n, phase) ==
    BagCardinality([e \in {x \in DOMAIN emitted[n] : x.phase = phase} |->
                       emitted[n][e]])

\* what replica n has been handed so far: votes stored, PRE_PREPAREs answered,
\* proposals made
Load(n) ==
    TotalVotes(n) + Emissions(n, "prepare") + sequence_number[n]

Senders(msgs) == {msgs[i].node_id : i \in DOMAIN msgs}

Remove(s, i) == [j \in 1..(Len(s) - 1) |-> IF j < i THEN s[j] ELSE s[j + 1]]

(***************************************************************************)
(* broadcast_message: the send loop runs as a task, one await per peer     *)
(***************************************************************************)
Untrusted(n) == trust[n] = "untrusted"

\* the peers of the send loop, in the order of the connections dict (the order
\* connect_to_peers filled it in); sends to peers outside the model change no
\* variable and are folded into the step that follows them
SendOrder(n) == SortedSeq(connections[n] \cap deployed)

start_broadcast(n, data, sequence) ==
    /\ emitted' = [emitted EXCEPT ![n] = @ (+) SetToBag({
                       [phase |-> data.phase, digest |-> data.digest,
                        view |-> view[n], sequence |-> sequence]})]
    /\ emitted_untrusted' =
          IF Untrusted(n) /\ data.phase # "pre_prepare"
          THEN [emitted_untrusted EXCEPT ![n] = @ + 1]
          ELSE emitted_untrusted
    /\ IF connections[n] = {}
       THEN tasks' = tasks
       ELSE /\ Len(tasks[n]) < MaxTasks
            /\ tasks' = [tasks EXCEPT ![n] =
                            Append(@, [data |-> data, todo |-> SendOrder(n),
                                       used |-> Cardinality(connections[n]),
                                       targets |-> connections[n] \cap deployed,
                                       attempted |-> {}])]

\* consensus.py, multi-node branch (the single-node branch has no caller:
\* propose returns before it and the server that feeds the handlers is not
\* started in single-node mode)
broadcast_message(n, message) ==
    start_broadcast(n, to_json(message), sequence_number'[n])

\* node.py: the dict carries the sequence of the instance it belongs to
broadcast_to_peers(n, message) == start_broadcast(n, message, message.sequence)

no_broadcast == UNCHANGED <<emitted, emitted_untrusted, tasks>>

(***************************************************************************)
(* The commit callback (cmd/node.py handle_consensus_commit)               *)
(***************************************************************************)
Signatures(msgs) == [i \in DOMAIN msgs |-> msgs[i].signature]

Min(a, b) == IF a <= b THEN a ELSE b

\* BLSManager.aggregate of consensus.py: all signatures with blspy, the first
\* three in mock mode
aggregate(signatures) ==
    IF HAS_BLS
    THEN [scheme |-> "bls", of |-> signatures]
    ELSE [scheme |-> "mock",
          of |-> SubSeq(signatures, 1, Min(3, Len(signatures)))]

\* BLSManager.aggregate of node.py
node_aggregate(signatures) == [scheme |-> "sha256", of |-> signatures]

\* "msg.signature" on a dict raises AttributeError in cmd/node.py, and the
\* database session may fail in any call; the except clause of the callback
\* logs the error and nothing is stored
on_commit_callback(n, digest, msgs, dicts) ==
    \E failed \in BOOLEAN :
    LET raised == (app = "cmd" /\ dicts) \/ failed
    IN sink_calls' = [sink_calls EXCEPT ![n] =
                         Append(@, [digest |-> digest, commit_messages |-> msgs,
                                    dicts |-> dicts,
                                    raised |-> raised,
                                    aggregated_sig |->
                                        IF raised THEN aggregate(<<>>)
                                        ELSE IF app = "cmd"
                                             THEN aggregate(Signatures(msgs))
                                             ELSE node_aggregate(Signatures(msgs)),
                                    consensus_round |-> sequence_number'[n]])]

\* what an invocation of the callback leaves in the database, c being its
\* record in sink_calls.  cmd/node.py adds an IntegrityEvent and an AuditLog
\* row; node.py sets the FileStorage and IntegrityEvent rows of the digest to
\* committed and adds an AuditLog row.  An invocation that raised committed
\* nothing.
committed_row(row, c) ==
    IF row.merkle_root = c.digest
    THEN [row EXCEPT !.status = "committed",
                     !.consensus_round = c.consensus_round]
    ELSE row

signed_row(row, c) ==
    IF row.merkle_root = c.digest
    THEN [committed_row(row, c) EXCEPT !.bls_signature = c.aggregated_sig]
    ELSE row

files_committed(database, c) ==
    Len(SelectSeq(database.file_storage, LAMBDA row : row.merkle_root = c.digest))

audit_row(n, c) ==
    [event_type |-> "consensus", node_id |-> n, digest |-> c.digest,
     commit_count |-> Len(c.commit_messages),
     consensus_round |-> c.consensus_round]

handle_consensus_commit(database, n, c) ==
    [database EXCEPT
        !.integrity_events =
            Append(@, [merkle_root |-> c.digest,
                       bls_signature |-> c.aggregated_sig, node_id |-> n,
                       consensus_round |-> c.consensus_round,
                       status |-> "committed"]),
        !.audit_log = Append(@, audit_row(n, c))]

execute_consensus_commit(database, n, c) ==
    [file_storage |->
        [i \in DOMAIN database.file_storage |->
            committed_row(database.file_storage[i], c)],
     integrity_events |->
        [i \in DOMAIN database.integrity_events |->
            signed_row(database.integrity_events[i], c)],
     audit_log |->
        Append(database.audit_log,
               audit_row(n, c) @@
               [files_committed |-> files_committed(database, c)])]

stored(database, n, c) ==
    IF c.raised THEN database
    ELSE IF app = "cmd" THEN handle_consensus_commit(database, n, c)
    ELSE execute_consensus_commit(database, n, c)

(***************************************************************************)
(* consensus.py handlers                                                   *)
(***************************************************************************)
\* a latch that holds the latest digest only
only_latest(set, x) == {x}

\* a latch that records nothing
not_added(set, x) == set

\* set.add of the latches
add(set, x) == set \cup {x}

\* the outcome of the callback just invoked on replica n
callback_raised(n) == sink_calls'[n][Len(sink_calls'[n])].raised

\* a committed latch that is undone when the callback fails
committed_unless_raised(n, digest, raised) ==
    IF raised THEN committed_digests[n] \ {digest}
    ELSE add(committed_digests[n], digest)

\* committed_digests once the callback has returned: the add precedes the
\* call, and neither the callback nor an except clause takes the digest out
committed_after_callback(n, digest, raised) == add(committed_digests[n], digest)

pre_prepare_refused(n, message) ==
    /\ ~single_node_mode(n)
    /\ ~is_primary(n)
    /\ message.node_id # (view[n] % total_nodes)

handle_pre_prepare(n, message) ==
    IF pre_prepare_refused(n, message)
    THEN UNCHANGED nodevars
    ELSE /\ UNCHANGED <<started, trust, view, sequence_number, prepare_messages,
                        commit_messages, prepared_digests, committed_digests,
                        connections, sink_calls>>
         /\ current_digest' = [current_digest EXCEPT ![n] = message.digest]
         /\ prepare_cause' = [prepare_cause EXCEPT ![n][message.digest] =
                                 @ \cup {message.node_id}]
         /\ broadcast_message(n,
                Message("prepare", message.digest, n,
                        sign(n, message_bytes("prepare", message.digest, view[n])),
                        time_ms, view[n]))

\* the tally a PREPARE or COMMIT goes under, if it were the digest of the last
\* PRE_PREPARE accepted instead of the message's own
tally_key_current(n, message) ==
    IF current_digest[n] = NoDigest THEN message.digest ELSE current_digest[n]

\* "digest = message.digest": the tally a PREPARE or COMMIT goes under
tally_key(n, message) == message.digest

\* handle_prepare without the "digest not in self.prepared_digests" test
prepare_quorum_unlatched(n, digest, msgs) ==
    Len(msgs) >= required_votes(n)

prepare_quorum_reached(n, digest, msgs) ==
    /\ Len(msgs) >= required_votes(n)
    /\ digest \notin prepared_digests[n]

handle_prepare(n, message) ==
    LET digest == tally_key(n, message)
        msgs == Append(prepare_messages[n][digest], message)
    IN /\ UNCHANGED <<started, trust, view, sequence_number, current_digest,
                      commit_messages, committed_digests, connections,
                      prepare_cause, sink_calls>>
       /\ prepare_messages' = [prepare_messages EXCEPT ![n][digest] = msgs]
       /\ IF prepare_quorum_reached(n, digest, msgs)
          THEN /\ prepared_digests' =
                     [prepared_digests EXCEPT ![n] = add(@, digest)]
               /\ broadcast_message(n,
                      Message("commit", digest, n,
                              sign(n, message_bytes("commit", digest, view[n])),
                              time_ms, view[n]))
          ELSE /\ UNCHANGED prepared_digests
               /\ no_broadcast

\* handle_commit without the "digest not in self.committed_digests" test
commit_quorum_unlatched(n, digest, msgs) ==
    Len(msgs) >= required_votes(n)

commit_quorum_reached(n, digest, msgs) ==
    /\ Len(msgs) >= required_votes(n)
    /\ digest \notin committed_digests[n]

handle_commit(n, message) ==
    LET digest == tally_key(n, message)
        msgs == Append(commit_messages[n][digest], message)
    IN /\ commit_messages' = [commit_messages EXCEPT ![n][digest] = msgs]
       /\ UNCHANGED <<started, trust, view, sequence_number, current_digest,
                      prepare_messages, prepared_digests, connections, tasks,
                      emitted, prepare_cause, emitted_untrusted>>
       /\ IF commit_quorum_reached(n, digest, msgs)
          THEN /\ on_commit_callback(n, digest, msgs, FALSE)
               /\ committed_digests' =
                     [committed_digests EXCEPT ![n] =
                         committed_after_callback(n, digest, callback_raised(n))]
          ELSE UNCHANGED <<committed_digests, sink_calls>>

\* the signature check, were it to pass only messages no older than the
\* attestation's five minutes
fresh_signature_accepted(n, data) ==
    /\ data.timestamp >= time_ms - MAX_SKEW_MS
    /\ \/ single_node_mode(n)
       \/ verify(get(data, "public_key", NoKey),
                 message_bytes(data.phase, data.digest, get(data, "view", 0)),
                 data.signature)

\* Message(phase=Phase(data["phase"]), ...) raises KeyError on a missing key
\* and ValueError on a phase outside the enum
decode_raises(data) ==
    \/ ~(RequiredKeys \subseteq DOMAIN data)
    \/ data.phase \notin Phases

signature_accepted(n, data) ==
    \/ single_node_mode(n)
    \/ verify(get(data, "public_key", NoKey),
              message_bytes(data.phase, data.digest, get(data, "view", 0)),
              data.signature)

\* the except clause logs what the try block raises and the call returns
handle_message(n, data) ==
    IF decode_raises(data)
    THEN UNCHANGED nodevars
    ELSE LET message == Message(data.phase, data.digest, data.node_id,
                                data.signature, data.timestamp,
                                get(data, "view", 0))
         IN IF ~signature_accepted(n, data)
            THEN UNCHANGED nodevars
            ELSE CASE message.phase = "pre_prepare" ->
                          handle_pre_prepare(n, message)
                   [] message.phase = "prepare" -> handle_prepare(n, message)
                   [] message.phase = "commit" -> handle_commit(n, message)

propose_refused(n) == ~single_node_mode(n) /\ ~is_primary(n)

pbft_propose(n, digest) ==
    IF propose_refused(n)
    THEN UNCHANGED nodevars
    ELSE /\ sequence_number' = [sequence_number EXCEPT ![n] = @ + 1]
         /\ IF single_node_mode(n)
            THEN /\ IF digest \notin committed_digests[n]
                    THEN /\ on_commit_callback(n, digest,
                               <<Message("commit", digest, n,
                                   sign(n, message_bytes("commit", digest, view[n])),
                                   time_ms, view[n])>>, TRUE)
                         /\ committed_digests' =
                               [committed_digests EXCEPT ![n] =
                                   committed_after_callback(n, digest,
                                                            callback_raised(n))]
                    ELSE UNCHANGED <<committed_digests, sink_calls>>
                 /\ no_broadcast
            ELSE /\ broadcast_message(n,
                        Message("pre_prepare", digest, n,
                            sign(n, message_bytes("pre_prepare", digest, view[n])),
                            time_ms, view[n]))
                 /\ UNCHANGED <<committed_digests, sink_calls>>
         /\ UNCHANGED <<started, trust, view, current_digest, prepare_messages,
                        commit_messages, prepared_digests, connections,
                        prepare_cause>>

(***************************************************************************)
(* node.py handlers over consensus_state                                   *)
(***************************************************************************)
node_sign(n, message) ==
    [scheme |-> "sha256", key |-> Key("node_key", n), message |-> message]

\* node.py BLSManager.verify: the key is derived again from the node id
node_verify(node_id, message, signature) ==
    signature = [scheme |-> "sha256", key |-> Key("node_key", node_id),
                 message |-> message]

node_message(phase, digest, n, v, sequence) ==
    [phase |-> phase, digest |-> digest, node_id |-> n,
     signature |-> node_sign(n, <<phase, digest>>), timestamp |-> time_ms,
     view |-> v, sequence |-> sequence]

\* "len(...) >= required_votes": an int compared with a property object
\* raises TypeError
node_compare_raises == node_required_votes.type # "int"

node_handle_pre_prepare(n, message) ==
    /\ UNCHANGED <<started, trust, view, sequence_number, current_digest,
                   prepare_messages, commit_messages, prepared_digests,
                   committed_digests, connections, sink_calls>>
    /\ prepare_cause' = [prepare_cause EXCEPT ![n][message.digest] =
                            @ \cup {message.node_id}]
    /\ broadcast_to_peers(n, node_message("prepare", message.digest, n, view[n],
                                       message.sequence))

node_handle_prepare(n, message) ==
    LET digest == message.digest
        msgs == Append(prepare_messages[n][digest], message)
    IN /\ UNCHANGED <<started, trust, view, sequence_number, current_digest,
                      commit_messages, committed_digests, connections,
                      prepare_cause, sink_calls>>
       /\ prepare_messages' = [prepare_messages EXCEPT ![n][digest] = msgs]
       /\ IF node_compare_raises
          THEN /\ UNCHANGED prepared_digests
               /\ no_broadcast
          ELSE IF /\ Len(msgs) >= node_required_votes.fget
                  /\ digest \notin prepared_digests[n]
               THEN /\ prepared_digests' =
                          [prepared_digests EXCEPT ![n] = add(@, digest)]
                    /\ broadcast_to_peers(n,
                           node_message("commit", digest, n, view[n],
                                        message.sequence))
               ELSE /\ UNCHANGED prepared_digests
                    /\ no_broadcast

node_handle_commit(n, message) ==
    LET digest == message.digest
        msgs == Append(commit_messages[n][digest], message)
    IN /\ commit_messages' = [commit_messages EXCEPT ![n][digest] = msgs]
       /\ UNCHANGED <<started, trust, view, sequence_number, current_digest,
                      prepare_messages, prepared_digests, connections, tasks,
                      emitted, prepare_cause, emitted_untrusted>>
       /\ IF node_compare_raises
          THEN UNCHANGED <<committed_digests, sink_calls>>
          ELSE IF /\ Len(msgs) >= node_required_votes.fget
                  /\ digest \notin committed_digests[n]
               THEN /\ on_commit_callback(n, digest, msgs, TRUE)
                    /\ committed_digests' =
                          [committed_digests EXCEPT ![n] =
                              committed_after_callback(n, digest,
                                                       callback_raised(n))]
               ELSE UNCHANGED <<committed_digests, sink_calls>>

handle_consensus_message(n, message) ==
    CASE message.phase = "pre_prepare" -> node_handle_pre_prepare(n, message)
      [] message.phase = "prepare" -> node_handle_prepare(n, message)
      [] message.phase = "commit" -> node_handle_commit(n, message)

initiate_consensus(n, digest) ==
    IF ~node_is_primary(n)
    THEN UNCHANGED nodevars
    ELSE /\ sequence_number' = [sequence_number EXCEPT ![n] = @ + 1]
         /\ broadcast_to_peers(n, node_message("pre_prepare", digest, n, view[n],
                                            sequence_number'[n]))
         /\ UNCHANGED <<started, trust, view, current_digest, prepare_messages,
                        commit_messages, prepared_digests, committed_digests,
                        connections, prepare_cause, sink_calls>>

(***************************************************************************)
(* The objects beside the replica, as their constructors leave them        *)
(***************************************************************************)
\* AttestationVerifier.__init__
NewVerifier == [trusted_nodes |-> <<>>]

\* BlockchainFileMonitor.__init__ and BlockchainFileAgent.__init__
NoRoot == "None"
NewAgent ==
    [running |-> FALSE, last_merkle_root |-> NoRoot, retry_count |-> 0,
     pc |-> "constructed"]

\* b'': the root of an empty watch path
EmptyRoot == ""

NewAgentLog == [attempts |-> 0, sent |-> {}]

\* init_database on an empty database
NewDatabase ==
    [integrity_events |-> <<>>, audit_log |-> <<>>, file_storage |-> <<>>]

Constructed ==
    /\ attestation_verifier = NewVerifier
    /\ verifier_calls = <<>>
    /\ agent = NewAgent
    /\ watched = EmptyRoot
    /\ agent_log = NewAgentLog
    /\ db = NewDatabase

(***************************************************************************)
(* Actions                                                                 *)
(***************************************************************************)
Running(n) == n \in deployed /\ started[n]

connect_to_peers(n) ==
    IF app = "cmd" /\ single_node_mode(n) THEN {}
    ELSE {i \in 0..(peers - 1) : i # n}

\* cmd/node.py: "tpm_manager.collect_quote()" on the unbound global raises
\* AttributeError inside the try; the except clause logs it and raises again
\* only "if not USE_SIMULATED_TPM", and the hardware TPMManager that cannot be
\* set up raises before the try.  node.py is modelled with the simulated TPM.
startup_raises == app = "cmd" /\ ~USE_SIMULATED_TPM

startup_event(n) ==
    /\ n \in deployed
    /\ ~started[n]
    /\ IF startup_raises
       THEN UNCHANGED nodevars
       ELSE /\ started' = [started EXCEPT ![n] = TRUE]
            /\ IF tpm_manager_bound
               THEN \E compromised \in BOOLEAN :
                       trust' = [trust EXCEPT ![n] =
                                    get_node_trust_level(
                                        collect_quote(compromised))]
               ELSE UNCHANGED trust
            /\ connections' = [connections EXCEPT ![n] = connect_to_peers(n)]
            /\ UNCHANGED <<view, sequence_number, current_digest,
                           prepare_messages, commit_messages, prepared_digests,
                           committed_digests, tasks, emitted, prepare_cause,
                           emitted_untrusted, sink_calls>>
    /\ UNCHANGED <<cfgvars, wire>>

\* PBFTNode.propose, entered from the /ws endpoint of cmd/node.py (which calls
\* it on the primary only) or from any other holder of the node object
propose(n, digest) ==
    /\ Running(n)
    /\ app = "cmd"
    /\ Load(n) < MaxLoad
    /\ pbft_propose(n, digest)
    /\ UNCHANGED <<cfgvars, wire>>

Credentials(s, mb) ==
    {[public_key |-> NoKey, signature |-> sign(s, mb)],
     [public_key |-> public_key(s), signature |-> sign(s, mb)],
     [public_key |-> public_key(s),
      signature |-> [scheme |-> "sha256", key |-> public_key(s), message |-> mb]]}

DataOf(ph, d, s, v) ==
    {[phase |-> ph, digest |-> d, node_id |-> s, signature |-> c.signature,
      timestamp |-> time_ms, view |-> v, public_key |-> c.public_key] :
        c \in Credentials(s, message_bytes(ph, d, v))}

\* what the environment may hand replica n: any phase, digest and view, under
\* the id of any other node
InboundData(n) ==
    UNION {DataOf(x[1], x[2], x[3], x[4]) :
              x \in Phases \X Digests \X (Nodes \ {n}) \X Views}

\* a frame read by the server of a replica of the cmd program, from any client
\* of its port: start_server.handle_connection
Inbound(n) ==
    /\ Running(n)
    /\ app = "cmd"
    /\ ~single_node_mode(n)
    /\ Load(n) < MaxLoad
    /\ \E data \in InboundData(n) : handle_message(n, data)
    /\ UNCHANGED <<cfgvars, wire>>

\* node.py: an integrity_event read on /ws
handle_integrity_event(n, digest) ==
    /\ Running(n)
    /\ app = "node"
    /\ Load(n) < MaxLoad
    /\ initiate_consensus(n, digest)
    /\ UNCHANGED <<cfgvars, wire>>

NodeInboundData(n) ==
    {node_message(x[1], x[2], x[3], x[4], x[5]) :
        x \in Phases \X Digests \X (Nodes \ {n}) \X Views \X InboundSequences}

\* node.py: a frame read on /peer, from any client of the port (frames read by
\* listen_to_peer on an outbound connection reach the same handler)
peer_websocket_endpoint(n) ==
    /\ Running(n)
    /\ app = "node"
    /\ Load(n) < MaxLoad
    /\ \E data \in NodeInboundData(n) : handle_consensus_message(n, data)
    /\ UNCHANGED <<cfgvars, wire>>

\* "for node_id, connection in self.connections.items()" resumed after a send:
\* the dict iterator raises RuntimeError when the dict has another size than
\* it had when the loop began
loop_raises(n, t) ==
    t.attempted # {} /\ Cardinality(connections[n]) # t.used

\* the entries the iterator has yet to yield: before the first send those of
\* the dict as the loop found it, afterwards the entries present and not yet
\* visited, in insertion order (connect_to_peers inserts in ascending order)
remaining(n, t) ==
    IF t.attempted = {} THEN t.todo
    ELSE SortedSeq((connections[n] \cap deployed) \ t.attempted)

\* one step of a suspended broadcast: the loop ends, by exhaustion or by the
\* iterator's RuntimeError (which the caller's except clause logs), or the next
\* "await connection.send(message_json)" is made and delivers or raises
send_step(n, i, delivered) ==
    /\ i \in DOMAIN tasks[n]
    /\ LET t == tasks[n][i]
           rest == remaining(n, t)
       IN IF loop_raises(n, t) \/ rest = <<>>
          THEN /\ delivered
               /\ tasks' = [tasks EXCEPT ![n] = Remove(@, i)]
               /\ UNCHANGED wire
          ELSE /\ IF delivered
                  THEN /\ Len(wire[n][Head(rest)]) < MaxWire
                       /\ wire' = [wire EXCEPT ![n][Head(rest)] =
                                      Append(@, t.data)]
                  ELSE UNCHANGED wire
               /\ tasks' = [tasks EXCEPT ![n][i] =
                               [t EXCEPT !.todo = Tail(rest),
                                         !.attempted = @ \cup {Head(rest)}]]
    /\ UNCHANGED <<started, trust, view, sequence_number, current_digest,
                   prepare_messages, commit_messages, prepared_digests,
                   committed_digests, connections, emitted, prepare_cause,
                   emitted_untrusted, sink_calls>>
    /\ UNCHANGED cfgvars

\* a step of a suspended broadcast whose send, if any, succeeds
send(n, i) ==
    /\ Running(n)
    /\ send_step(n, i, TRUE)

\* "except Exception as e" of the send loop: the send to this peer raised
send_fails(n, i) ==
    /\ Running(n)
    /\ send_step(n, i, FALSE)

\* the server of dst reads the next frame of the stream from src
Deliver(src, dst) ==
    /\ Running(dst)
    /\ wire[src][dst] # <<>>
    /\ handle_message(dst, Head(wire[src][dst]))
    /\ wire' = [wire EXCEPT ![src][dst] = Tail(@)]
    /\ UNCHANGED cfgvars

periodic_attestation(n) ==
    /\ Running(n)
    /\ IF tpm_manager_bound
       THEN \E compromised \in BOOLEAN :
               trust' = [trust EXCEPT ![n] =
                            get_node_trust_level(collect_quote(compromised))]
       ELSE UNCHANGED trust
    /\ UNCHANGED <<started, view, sequence_number, current_digest,
                   prepare_messages, commit_messages, prepared_digests,
                   committed_digests, connections, tasks, emitted, prepare_cause,
                   emitted_untrusted, sink_calls>>
    /\ UNCHANGED <<cfgvars, wire>>

Init ==
    /\ \/ /\ app = "cmd"
          /\ HAS_BLS = TRUE
          /\ USE_SIMULATED_TPM \in BOOLEAN
          /\ total_nodes \in NodeCounts
          /\ peers \in {0, total_nodes}
       \/ /\ app = "node"
          /\ HAS_BLS = FALSE
          /\ USE_SIMULATED_TPM = TRUE
          /\ total_nodes = TOTAL_NODES
          /\ peers = total_nodes
    /\ \E self \in {0, 1} : deployed = {self}
    /\ call = NoCall
    /\ Constructed
    /\ started = [n \in Nodes |-> FALSE]
    /\ trust = [n \in Nodes |-> "none"]
    /\ view = [n \in Nodes |-> 0]
    /\ sequence_number = [n \in Nodes |-> 0]
    /\ current_digest = [n \in Nodes |-> NoDigest]
    /\ prepare_messages = [n \in Nodes |-> [d \in Digests |-> <<>>]]
    /\ commit_messages = [n \in Nodes |-> [d \in Digests |-> <<>>]]
    /\ prepared_digests = [n \in Nodes |-> {}]
    /\ committed_digests = [n \in Nodes |-> {}]
    /\ connections = [n \in Nodes |-> {}]
    /\ tasks = [n \in Nodes |-> <<>>]
    /\ wire = [s \in Nodes |-> [r \in Nodes |-> <<>>]]
    /\ emitted = [n \in Nodes |-> EmptyBag]
    /\ prepare_cause = [n \in Nodes |-> [d \in Digests |-> {}]]
    /\ emitted_untrusted = [n \in Nodes |-> 0]
    /\ sink_calls = [n \in Nodes |-> <<>>]

Next ==
    \/ \E n \in Nodes : startup_event(n)
    \/ \E n \in Nodes, d \in Digests : propose(n, d)
    \/ \E n \in Nodes : Inbound(n)
    \/ \E n \in Nodes, d \in Digests : handle_integrity_event(n, d)
    \/ \E n \in Nodes : peer_websocket_endpoint(n)
    \/ \E n \in Nodes, i \in 1..MaxTasks : send(n, i)
    \/ \E n \in Nodes : periodic_attestation(n)

Spec == Init /\ [][Next]_vars

(***************************************************************************)
(* The closed cluster: every replica runs cmd/node.py, all have started    *)
(* and every connect_to_peers attempt has succeeded                        *)
(***************************************************************************)
\* N configured replicas of cmd/node.py, those in live running; connected says
\* whether the connection attempts of connect_to_peers succeeded or all failed
Deployment(N, live, connected) ==
    /\ app = "cmd"
    /\ HAS_BLS \in BOOLEAN
    /\ total_nodes = N
    /\ peers = N
    /\ deployed = live
    /\ call = NoCall
    /\ USE_SIMULATED_TPM = TRUE
    /\ Constructed
    /\ started = [n \in Nodes |-> TRUE]
    /\ trust = [n \in Nodes |-> "none"]
    /\ view = [n \in Nodes |-> 0]
    /\ sequence_number = [n \in Nodes |-> 0]
    /\ current_digest = [n \in Nodes |-> NoDigest]
    /\ prepare_messages = [n \in Nodes |-> [d \in Digests |-> <<>>]]
    /\ commit_messages = [n \in Nodes |-> [d \in Digests |-> <<>>]]
    /\ prepared_digests = [n \in Nodes |-> {}]
    /\ committed_digests = [n \in Nodes |-> {}]
    /\ connections = [n \in Nodes |->
                          IF connected THEN connect_to_peers(n) ELSE {}]
    /\ tasks = [n \in Nodes |-> <<>>]
    /\ wire = [s \in Nodes |-> [r \in Nodes |-> <<>>]]
    /\ emitted = [n \in Nodes |-> EmptyBag]
    /\ prepare_cause = [n \in Nodes |-> [d \in Digests |-> {}]]
    /\ emitted_untrusted = [n \in Nodes |-> 0]
    /\ sink_calls = [n \in Nodes |-> <<>>]

ClusterOf(live) == Deployment(TOTAL_NODES, live, TRUE)

InitCluster == ClusterOf(Nodes)

NextCluster ==
    \/ \E n \in Nodes, d \in Digests : propose(n, d)
    \/ \E n \in Nodes, i \in 1..MaxTasks : send(n, i)
    \/ \E s \in Nodes, r \in Nodes : Deliver(s, r)

SpecCluster == InitCluster /\ [][NextCluster]_vars

\* every suspended broadcast finishes and every frame sent is read
FairCluster ==
    /\ SpecCluster
    /\ \A n \in Nodes, i \in 1..MaxTasks : WF_vars(send(n, i))
    /\ \A s \in Nodes, r \in Nodes : WF_vars(Deliver(s, r))

(***************************************************************************)
(* The cluster with one silent member: node 3 runs no code and sends       *)
(* nothing; nodes 0, 1 and 2 are as in the closed cluster                  *)
(***************************************************************************)
SilentNode == TOTAL_NODES - 1

InitSilent == ClusterOf(Nodes \ {SilentNode})

FairSilent ==
    /\ InitSilent /\ [][NextCluster]_vars
    /\ \A n \in Nodes, i \in 1..MaxTasks : WF_vars(send(n, i))
    /\ \A s \in Nodes, r \in Nodes : WF_vars(Deliver(s, r))

(***************************************************************************)
(* The cluster with one faulty member: node 3 may send any frame under its *)
(* own id to the honest replicas 1 and 2, which run the code               *)
(***************************************************************************)
FaultyNode == TOTAL_NODES - 1

InitByzantine == ClusterOf({1, 2}) /\ HAS_BLS = TRUE

\* a frame of the faulty node: its own id, its own key, a signature made with it
FaultyFrame(phase, digest, v) ==
    [phase |-> phase, digest |-> digest, node_id |-> FaultyNode,
     signature |-> sign(FaultyNode, message_bytes(phase, digest, v)),
     timestamp |-> time_ms, view |-> v, public_key |-> public_key(FaultyNode)]

\* frames enough for every digest to reach the threshold once
FrameBudget(n) == Cardinality(Digests) * required_votes(n)

Byzantine(n) ==
    /\ Running(n)
    /\ TotalVotes(n) < FrameBudget(n)
    /\ \E ph \in Phases, d \in Digests :
          handle_message(n, FaultyFrame(ph, d, view[n]))
    /\ UNCHANGED <<cfgvars, wire>>

NextByzantine ==
    \/ \E n \in Nodes : Byzantine(n)
    \/ \E n \in Nodes, d \in Digests : propose(n, d)
    \/ \E n \in Nodes, i \in 1..MaxTasks : send(n, i)
    \/ \E s \in Nodes, r \in Nodes : Deliver(s, r)

SpecByzantine == InitByzantine /\ [][NextByzantine]_vars

(***************************************************************************)
(* One replica of three and the frames a client of its port may write:     *)
(* well-formed ones of the local view, of another view and of a sender no  *)
(* replica has, and ones that lack a key or name no phase                  *)
(***************************************************************************)
Outsider == TOTAL_NODES

FrameViews == {0, 1}

AllKeys == RequiredKeys \cup {"view", "public_key"}

\* a frame with every key, signed by its sender over its own phase, digest, view
Frame(phase, digest, s, v, timestamp) ==
    [phase |-> phase, digest |-> digest, node_id |-> s,
     signature |-> sign(s, message_bytes(phase, digest, v)),
     timestamp |-> timestamp, view |-> v, public_key |-> public_key(s)]

Without(data, key) == [k \in DOMAIN data \ {key} |-> data[k]]

\* the peer whose PRE_PREPARE replica n answers
PeerOf(n) == IF n = 0 THEN 1 ELSE 0

WellFormed(n) ==
    {Frame(ph, d, x[1], x[2], time_ms) :
        ph \in Phases, d \in Digests,
        x \in ({PeerOf(n)} \X FrameViews) \cup {<<Outsider, 0>>}}

Malformed(n) ==
    {Without(Frame(ph, d, PeerOf(n), 0, time_ms), key) :
        ph \in Phases, d \in Digests, key \in AllKeys}
    \cup {[Frame("prepare", d, PeerOf(n), 0, time_ms) EXCEPT !.phase = "view_change"] :
              d \in Digests}

FrameData(n) == WellFormed(n) \cup Malformed(n)

InitFrames ==
    /\ \E self \in {0, 1} : Deployment(TOTAL_NODES - 1, {self}, TRUE)
    /\ HAS_BLS = TRUE

\* a frame read by the server, and the digest it names noted in call
Receive(n) ==
    /\ Running(n)
    /\ Load(n) < MaxFrames
    /\ \E data \in FrameData(n) :
          /\ handle_message(n, data)
          /\ call' = [fn |-> "handle_message",
                      digest |-> get(data, "digest", NoDigest)]
    /\ UNCHANGED <<deployvars, wire>>

NextFrames ==
    \/ \E n \in Nodes : Receive(n)
    \/ \E n \in Nodes, i \in 1..MaxTasks : send(n, i)

SpecFrames == InitFrames /\ [][NextFrames]_vars

(***************************************************************************)
(* Two replicas of three in the same role, handed the same frames of the   *)
(* primary one after the other, each frame under timestamps of its own;    *)
(* neither has a connection, so the two runs do not meet                   *)
(***************************************************************************)
First == 1
Second == 2

\* the local clock's reading, and one more than five minutes before it
Timestamps == {time_ms, time_ms - MAX_SKEW_MS - 1}

InitTwin ==
    /\ Deployment(TOTAL_NODES - 1, {First, Second}, FALSE)
    /\ HAS_BLS = TRUE

\* the first replica reads a frame; call holds it until the second has read it
TwinFirst ==
    /\ call = NoCall
    /\ Running(First)
    /\ Load(First) < MaxFrames
    /\ \E ph \in Phases, d \in Digests, t \in Timestamps :
          /\ handle_message(First, Frame(ph, d, 0, 0, t))
          /\ call' = [fn |-> "handle_message", phase |-> ph, digest |-> d]
    /\ UNCHANGED <<deployvars, wire>>

TwinSecond ==
    /\ call # NoCall
    /\ Running(Second)
    /\ \E t \in Timestamps :
          handle_message(Second, Frame(call.phase, call.digest, 0, 0, t))
    /\ call' = NoCall
    /\ UNCHANGED <<deployvars, wire>>

NextTwin ==
    \/ TwinFirst
    \/ TwinSecond

SpecTwin == InitTwin /\ [][NextTwin]_vars

(***************************************************************************)
(* The library functions, called on inputs of bounded size; no node runs   *)
(***************************************************************************)
LeafValues == {"a", "b", "c"}

LeafSeqs == UNION {[1..k -> LeafValues] : k \in 0..MaxLeaves}

\* values a leaf or a proof element may be replaced by
OtherLeaves == LeafValues \cup {"x"}

OtherHashes ==
    {EmptyBytes} \cup {hash_leaf(x) : x \in OtherLeaves}
        \cup {hash_node(hash_leaf(x), hash_leaf(y)) : x, y \in LeafValues}

Skews == {0, MAX_SKEW_MS, MAX_SKEW_MS + 1}

Quotes == [pcr_match : BOOLEAN, skew : Skews, sig_ok : BOOLEAN,
           is_valid : BOOLEAN]

libvars == <<deployvars, nodevars, wire>>

InitLibrary == ClusterOf({}) /\ HAS_BLS = TRUE

\* one call per run: a call's result does not depend on earlier calls
Idle == call = NoCall

compute_root ==
    /\ Idle
    /\ \E s \in LeafSeqs :
        /\ call' = [fn |-> "merkle_root", leaves |-> s, ret |-> merkle_root(s)]
        /\ UNCHANGED libvars

\* any index, also outside 0..len(s)-1
compute_proof ==
    /\ Idle
    /\ \E s \in LeafSeqs, i \in (0 - MaxLeaves - 2)..MaxLeaves :
        /\ call' = [fn |-> "merkle_proof", leaves |-> s, index |-> i,
                    raised |-> merkle_proof_raises(s, i),
                    ret |-> merkle_proof(s, i)]
        /\ UNCHANGED libvars

VerifyCall(kind, s, i, leaf, proof, root) ==
    [fn |-> "verify_proof", kind |-> kind, leaves |-> s, index |-> i,
     leaf |-> leaf, proof |-> proof, root |-> root,
     ret |-> verify_proof(leaf, proof, root, i)]

\* verify_proof(s[i], merkle_proof(s, i), merkle_root(s), i)
check_proof ==
    /\ Idle
    /\ \E s \in LeafSeqs \ {<<>>} : \E i \in 0..(Len(s) - 1) :
        /\ call' = VerifyCall("as_produced", s, i, s[i + 1],
                              merkle_proof(s, i), merkle_root(s))
        /\ UNCHANGED libvars

\* verify_proof(x, [], b'', 0)
check_empty ==
    /\ Idle
    /\ \E x \in OtherLeaves :
        /\ call' = VerifyCall("empty", <<>>, 0, x, <<>>, EmptyBytes)
        /\ UNCHANGED libvars

check_replaced_leaf ==
    /\ Idle
    /\ \E s \in LeafSeqs \ {<<>>} : \E i \in 0..(Len(s) - 1) :
        \E x \in OtherLeaves \ {s[i + 1]} :
            /\ call' = VerifyCall("leaf_replaced", s, i, x,
                                  merkle_proof(s, i), merkle_root(s))
            /\ UNCHANGED libvars

check_replaced_proof ==
    /\ Idle
    /\ \E s \in LeafSeqs \ {<<>>} : \E i \in 0..(Len(s) - 1) :
        LET proof == merkle_proof(s, i)
        IN \E j \in DOMAIN proof : \E h \in OtherHashes \ {proof[j]} :
              /\ call' = VerifyCall("proof_replaced", s, i, s[i + 1],
                                    [proof EXCEPT ![j] = h], merkle_root(s))
              /\ UNCHANGED libvars

classify_quote ==
    /\ Idle
    /\ \E quote \in Quotes :
        /\ call' = [fn |-> "get_node_trust_level", quote |-> quote,
                    ret |-> get_node_trust_level(quote)]
        /\ UNCHANGED libvars

NextLibrary ==
    \/ compute_root
    \/ compute_proof
    \/ check_proof
    \/ check_empty
    \/ check_replaced_leaf
    \/ check_replaced_proof
    \/ classify_quote

SpecLibrary == InitLibrary /\ [][NextLibrary]_vars

(***************************************************************************)
(* One replica of TOTAL_NODES whose connection map changes while it        *)
(* broadcasts: connect_to_peers is still going through PEERS when frames   *)
(* arrive, and node.py drops a peer whose stream fails.  The peers are     *)
(* endpoints only; call holds the connect_to_peers call and its loop index *)
(***************************************************************************)
FanoutNode == 0

InitFanout ==
    /\ app \in {"cmd", "node"}
    /\ HAS_BLS = (app = "cmd")
    /\ total_nodes = TOTAL_NODES
    /\ peers = TOTAL_NODES
    /\ deployed = Nodes
    /\ call = [fn |-> "connect_to_peers", i |-> 0]
    /\ USE_SIMULATED_TPM = TRUE
    /\ Constructed
    /\ started = [n \in Nodes |-> n = FanoutNode]
    /\ trust = [n \in Nodes |-> "none"]
    /\ view = [n \in Nodes |-> 0]
    /\ sequence_number = [n \in Nodes |-> 0]
    /\ current_digest = [n \in Nodes |-> NoDigest]
    /\ prepare_messages = [n \in Nodes |-> [d \in Digests |-> <<>>]]
    /\ commit_messages = [n \in Nodes |-> [d \in Digests |-> <<>>]]
    /\ prepared_digests = [n \in Nodes |-> {}]
    /\ committed_digests = [n \in Nodes |-> {}]
    /\ connections = [n \in Nodes |-> {}]
    /\ tasks = [n \in Nodes |-> <<>>]
    /\ wire = [s \in Nodes |-> [r \in Nodes |-> <<>>]]
    /\ emitted = [n \in Nodes |-> EmptyBag]
    /\ prepare_cause = [n \in Nodes |-> [d \in Digests |-> {}]]
    /\ emitted_untrusted = [n \in Nodes |-> 0]
    /\ sink_calls = [n \in Nodes |-> <<>>]

\* one turn of the loop of connect_to_peers: the own index is passed over, and
\* "await websockets.connect(peer_url)" returns a connection or raises
connect_step(n) ==
    /\ Running(n)
    /\ call.fn = "connect_to_peers"
    /\ call.i < peers
    /\ \E connected \in BOOLEAN :
          connections' = [connections EXCEPT ![n] =
                             IF call.i # n /\ connected
                             THEN @ \cup {call.i} ELSE @]
    /\ call' = [call EXCEPT !.i = @ + 1]
    /\ UNCHANGED <<started, trust, view, sequence_number, current_digest,
                   prepare_messages, commit_messages, prepared_digests,
                   committed_digests, tasks, emitted, prepare_cause,
                   emitted_untrusted, sink_calls>>
    /\ UNCHANGED <<deployvars, wire>>

\* consensus.py start_server.handle_connection: a frame read by the server,
\* which start() brings up before connect_to_peers
handle_connection(n) ==
    /\ Running(n)
    /\ app = "cmd"
    /\ Load(n) < MaxFrames
    /\ \E data \in WellFormed(n) : handle_message(n, data)
    /\ UNCHANGED <<cfgvars, wire>>

\* node.py listen_to_peer: a frame read from a peer this node connected to
listen_to_peer(n) ==
    /\ Running(n)
    /\ app = "node"
    /\ connections[n] # {}
    /\ Load(n) < MaxFrames
    /\ \E data \in NodeInboundData(n) : handle_consensus_message(n, data)
    /\ UNCHANGED <<cfgvars, wire>>

\* node.py listen_to_peer, except clause: the stream of peer_id failed
listen_to_peer_fails(n, peer_id) ==
    /\ Running(n)
    /\ app = "node"
    /\ peer_id \in connections[n]
    /\ connections' = [connections EXCEPT ![n] = @ \ {peer_id}]
    /\ UNCHANGED <<started, trust, view, sequence_number, current_digest,
                   prepare_messages, commit_messages, prepared_digests,
                   committed_digests, tasks, emitted, prepare_cause,
                   emitted_untrusted, sink_calls>>
    /\ UNCHANGED <<cfgvars, wire>>

NextFanout ==
    \/ \E n \in Nodes : connect_step(n)
    \/ \E n \in Nodes : handle_connection(n)
    \/ \E n \in Nodes : listen_to_peer(n)
    \/ \E n \in Nodes, peer_id \in Nodes : listen_to_peer_fails(n, peer_id)
    \/ \E n \in Nodes, i \in 1..MaxTasks : send(n, i)
    \/ \E n \in Nodes, i \in 1..MaxTasks : send_fails(n, i)

SpecFanout == InitFanout /\ [][NextFanout]_vars

(***************************************************************************)
(* The AttestationVerifier, called by its owner: nodes are entered and     *)
(* quarantined in any order and quotes are put to it in between            *)
(***************************************************************************)
VerifierNodes == {1, 2}

PcrMaps ==
    {<<>>, (0 :> "a"), (0 :> "b"), (1 :> "b"), (0 :> "a" @@ 1 :> "b"),
     (0 :> "a" @@ 1 :> "a")}

BaselineMaps == {<<>>, (0 :> "a"), (0 :> "a" @@ 1 :> "b")}

QuoteTimes ==
    {time_ms, time_ms - MAX_SKEW_MS, time_ms - MAX_SKEW_MS - 1,
     time_ms + MAX_SKEW_MS + 1}

verifiervars ==
    <<app, HAS_BLS, USE_SIMULATED_TPM, total_nodes, peers, deployed, agent,
      watched, agent_log, db, nodevars, wire>>

InitVerifier == Deployment(TOTAL_NODES, {}, FALSE) /\ HAS_BLS = TRUE

trust_node ==
    /\ Len(verifier_calls) < MaxCalls
    /\ \E node_id \in VerifierNodes, baseline_pcrs \in BaselineMaps :
          /\ attestation_verifier' =
                add_trusted_node(attestation_verifier, node_id, baseline_pcrs)
          /\ call' = [fn |-> "add_trusted_node", node_id |-> node_id,
                      baseline_pcrs |-> baseline_pcrs]
          /\ verifier_calls' = Append(verifier_calls, call')
    /\ UNCHANGED verifiervars

quarantine ==
    /\ Len(verifier_calls) < MaxCalls
    /\ \E node_id \in VerifierNodes :
          /\ attestation_verifier' =
                quarantine_node(attestation_verifier, node_id)
          /\ call' = [fn |-> "quarantine_node", node_id |-> node_id]
          /\ verifier_calls' = Append(verifier_calls, call')
    /\ UNCHANGED verifiervars

\* verify_node_quote changes no field: a quote put right after another finds
\* the verifier as the first found it, so one quote is put between changes
check_node_quote ==
    /\ call.fn # "verify_node_quote"
    /\ \E node_id \in VerifierNodes, pcr_values \in PcrMaps,
          timestamp \in QuoteTimes :
          LET quote == [pcr_values |-> pcr_values, timestamp |-> timestamp]
          IN call' = [fn |-> "verify_node_quote", node_id |-> node_id,
                      quote |-> quote,
                      ret |-> verify_node_quote(attestation_verifier, node_id,
                                                quote)]
    /\ UNCHANGED <<attestation_verifier, verifier_calls>>
    /\ UNCHANGED verifiervars

NextVerifier ==
    \/ trust_node
    \/ quarantine
    \/ check_node_quote

SpecVerifier == InitVerifier /\ [][NextVerifier]_vars

(***************************************************************************)
(* The commit callback and the database it writes, invoked by the owner of *)
(* the callback for any digest and any tally, more than once               *)
(***************************************************************************)
SinkNode == 0

\* node.py: the rows an upload leaves for its Merkle root (upload_file)
pending_rows(digest) ==
    [NewDatabase EXCEPT
        !.file_storage = <<[merkle_root |-> digest, node_id |-> SinkNode,
                            consensus_round |-> 0, status |-> "pending"]>>,
        !.integrity_events = <<[merkle_root |-> digest, bls_signature |-> "None",
                                node_id |-> SinkNode, consensus_round |-> 0,
                                status |-> "pending"]>>]

\* the COMMIT tallies the callback is handed
CommitTallies(digest) ==
    LET vote(s) == Message("commit", digest, s,
                           sign(s, message_bytes("commit", digest, 0)),
                           time_ms, 0)
    IN {<<vote(1)>>, <<vote(1), vote(2)>>}

InitSink ==
    /\ app \in {"cmd", "node"}
    /\ HAS_BLS = (app = "cmd")
    /\ USE_SIMULATED_TPM = TRUE
    /\ total_nodes = TOTAL_NODES
    /\ peers = TOTAL_NODES
    /\ deployed = {SinkNode}
    /\ call = NoCall
    /\ attestation_verifier = NewVerifier
    /\ verifier_calls = <<>>
    /\ agent = NewAgent
    /\ watched = EmptyRoot
    /\ agent_log = NewAgentLog
    /\ db = IF app = "cmd" THEN NewDatabase ELSE pending_rows("d1")
    /\ started = [n \in Nodes |-> TRUE]
    /\ trust = [n \in Nodes |-> "none"]
    /\ view = [n \in Nodes |-> 0]
    /\ sequence_number = [n \in Nodes |-> 0]
    /\ current_digest = [n \in Nodes |-> NoDigest]
    /\ prepare_messages = [n \in Nodes |-> [d \in Digests |-> <<>>]]
    /\ commit_messages = [n \in Nodes |-> [d \in Digests |-> <<>>]]
    /\ prepared_digests = [n \in Nodes |-> {}]
    /\ committed_digests = [n \in Nodes |-> {}]
    /\ connections = [n \in Nodes |-> {}]
    /\ tasks = [n \in Nodes |-> <<>>]
    /\ wire = [s \in Nodes |-> [r \in Nodes |-> <<>>]]
    /\ emitted = [n \in Nodes |-> EmptyBag]
    /\ prepare_cause = [n \in Nodes |-> [d \in Digests |-> {}]]
    /\ emitted_untrusted = [n \in Nodes |-> 0]
    /\ sink_calls = [n \in Nodes |-> <<>>]

\* "await self.on_commit_callback(digest, tally)" and what it stores
invoke_callback(n, digest) ==
    /\ Running(n)
    /\ Len(sink_calls[n]) < MaxCalls
    /\ UNCHANGED <<started, trust, view, sequence_number, current_digest,
                   prepare_messages, commit_messages, prepared_digests,
                   committed_digests, connections, tasks, emitted,
                   prepare_cause, emitted_untrusted>>
    /\ \E msgs \in CommitTallies(digest), dicts \in {app = "node", TRUE} :
          on_commit_callback(n, digest, msgs, dicts)
    /\ db' = stored(db, n, sink_calls'[n][Len(sink_calls'[n])])
    /\ UNCHANGED <<app, HAS_BLS, USE_SIMULATED_TPM, total_nodes, peers,
                   deployed, attestation_verifier, verifier_calls, agent,
                   watched, agent_log, call, wire>>

NextSink == \E n \in Nodes, digest \in Digests : invoke_callback(n, digest)

SpecSink == InitSink /\ [][NextSink]_vars

(***************************************************************************)
(* The scanning agent (agent.py) beside a node it reaches or not: the      *)
(* files under WATCH_PATHS change at any time, a connection attempt        *)
(* succeeds, is refused or fails otherwise, and a send succeeds, finds the *)
(* connection closed or fails otherwise                                    *)
(***************************************************************************)
max_retries == 3

Roots == {"r1", "r2"}

\* compute_blockchain_merkle_root: b'' for no files and for an unchanged
\* root; a changed root is noted in last_merkle_root before it is returned
compute_blockchain_merkle_root(last_merkle_root, files) ==
    IF files = EmptyRoot THEN [root |-> EmptyRoot, last |-> last_merkle_root]
    ELSE IF last_merkle_root # files THEN [root |-> files, last |-> files]
    ELSE [root |-> EmptyRoot, last |-> last_merkle_root]

agentvars ==
    <<app, HAS_BLS, USE_SIMULATED_TPM, total_nodes, peers, deployed, call,
      attestation_verifier, verifier_calls, db, nodevars, wire>>

InitAgent == Deployment(TOTAL_NODES, {}, FALSE) /\ HAS_BLS = TRUE

\* start(): running is set and connect_and_monitor_blockchain is entered
agent_start ==
    /\ agent.pc = "constructed"
    /\ agent' = [agent EXCEPT !.running = TRUE, !.pc = "while"]
    /\ UNCHANGED <<watched, agent_log>>
    /\ UNCHANGED agentvars

\* one turn of "while self.running and retry_count < max_retries": the loop
\* is left and stop() runs, or websockets.connect is awaited and returns a
\* connection, raises ConnectionRefusedError or another OSError, or raises
\* an exception of another class (a rejected handshake)
agent_connect ==
    /\ agent.pc = "while"
    /\ IF ~(agent.running /\ agent.retry_count < max_retries)
       THEN /\ agent' = [agent EXCEPT !.running = FALSE, !.pc = "stopped"]
            /\ UNCHANGED agent_log
       ELSE /\ agent_log.attempts < MaxAttempts
            /\ \E outcome \in {"connected", "refused", "other"} :
                  CASE outcome = "connected" ->
                         /\ agent' = [agent EXCEPT !.retry_count = 0,
                                                   !.pc = "connected"]
                         /\ agent_log' = [agent_log EXCEPT !.attempts = 0]
                    [] outcome = "refused" ->
                         /\ agent' =
                               [agent EXCEPT
                                   !.retry_count = @ + 1,
                                   !.running = (agent.retry_count + 1
                                                    < max_retries)]
                         /\ agent_log' = [agent_log EXCEPT !.attempts = @ + 1]
                    [] outcome = "other" ->
                         /\ UNCHANGED agent
                         /\ agent_log' = [agent_log EXCEPT !.attempts = @ + 1]
    /\ UNCHANGED watched
    /\ UNCHANGED agentvars

\* one turn of the inner "while self.running": the scan, and for a changed
\* root the send, which returns, raises ConnectionClosed (break: the
\* connection is left and the outer loop goes on) or raises another exception
agent_scan ==
    /\ agent.pc = "connected"
    /\ LET scan == compute_blockchain_merkle_root(agent.last_merkle_root,
                                                  watched)
       IN IF scan.root = EmptyRoot
          THEN /\ agent' = [agent EXCEPT !.last_merkle_root = scan.last]
               /\ UNCHANGED agent_log
          ELSE \E outcome \in {"sent", "closed", "other"} :
                  /\ agent' = [agent EXCEPT
                                  !.last_merkle_root = scan.last,
                                  !.pc = IF outcome = "closed" THEN "while"
                                         ELSE "connected"]
                  /\ agent_log' =
                        IF outcome = "sent"
                        THEN [agent_log EXCEPT !.sent = @ \cup {scan.root}]
                        ELSE agent_log
    /\ UNCHANGED watched
    /\ UNCHANGED agentvars

\* the files under WATCH_PATHS are changed
files_change ==
    /\ \E r \in (Roots \cup {EmptyRoot}) \ {watched} : watched' = r
    /\ UNCHANGED <<agent, agent_log>>
    /\ UNCHANGED agentvars

NextAgent ==
    \/ agent_start
    \/ agent_connect
    \/ agent_scan
    \/ files_change

SpecAgent == InitAgent /\ [][NextAgent]_vars

\* the agent's coroutine is resumed when its sleep or its await ends
FairAgent ==
    /\ SpecAgent
    /\ WF_vars(agent_start)
    /\ WF_vars(agent_connect)
    /\ WF_vars(agent_scan)

(***************************************************************************)
(* The two signers, called on every message a node signs: BLSManager of    *)
(* consensus.py with and without blspy, and BLSManager of node.py          *)
(***************************************************************************)
SignedBytes ==
    {message_bytes(ph, d, v) : ph \in Phases, d \in Digests, v \in FrameViews}

InitSigners == Deployment(TOTAL_NODES, {}, FALSE)

\* bls.verify(bls.public_key, other, bls.sign(message))
sign_and_verify ==
    /\ Idle
    /\ \E n \in Nodes, message \in SignedBytes, other \in SignedBytes :
        /\ call' = [fn |-> "verify", signer |-> "consensus.BLSManager",
                    node_id |-> n, message |-> message, other |-> other,
                    ret |-> verify(public_key(n), other, sign(n, message))]
        /\ UNCHANGED libvars

\* bls_manager.verify(NODE_ID, other, bls_manager.sign(message))
node_sign_and_verify ==
    /\ Idle
    /\ \E n \in Nodes, message \in SignedBytes, other \in SignedBytes :
        /\ call' = [fn |-> "verify", signer |-> "node.BLSManager",
                    node_id |-> n, message |-> message, other |-> other,
                    ret |-> node_verify(n, other, node_sign(n, message))]
        /\ UNCHANGED libvars

NextSigners ==
    \/ sign_and_verify
    \/ node_sign_and_verify

SpecSigners == InitSigners /\ [][NextSigners]_vars

(***************************************************************************)
(* Properties                                                              *)
(***************************************************************************)
\* the threshold of spec.md: Q = floor(2(N-1)/3) + 1 for N >= 2, 1 for N = 1
Quorum(N) == IF N = 1 THEN 1 ELSE ((2 * (N - 1)) \div 3) + 1

CommitSenders(n, d) == Senders(commit_messages[n][d])

SinkCount(n, d) ==
    Cardinality({i \in DOMAIN sink_calls[n] : sink_calls[n][i].digest = d})

Pending(n, phase, d) ==
    \E i \in DOMAIN tasks[n] :
        tasks[n][i].data.phase = phase /\ tasks[n][i].data.digest = d

\* C1: on every replica and for every digest d, d is latched committed if and
\* only if COMMITs for d have been received from at least required_votes
\* distinct senders
C1_CommittedIffDistinctQuorum ==
    \A n \in Nodes, d \in Digests :
        d \in committed_digests[n] <=>
            Cardinality(CommitSenders(n, d)) >= required_votes(n)

\* C2: in a multi-node configuration every PREPARE a replica emits answers a
\* PRE_PREPARE whose sender is primary(view) = view mod N
C2_PrepareOnlyForPrimary ==
    \A n \in Nodes, d \in Digests :
        ~single_node_mode(n) =>
            \A s \in prepare_cause[n][d] : s = view[n] % total_nodes

\* C3: a replica emits at most one PREPARE per (view, sequence, digest)
C3_OnePreparePerInstance ==
    \A n \in Nodes : \A e \in DOMAIN emitted[n] :
        e.phase = "prepare" => emitted[n][e] <= 1

\* C4: a replica emits at most one COMMIT per (view, sequence, digest),
\* whatever PREPAREs arrive and whenever they arrive
C4_OneCommitPerInstance ==
    \A n \in Nodes : \A e \in DOMAIN emitted[n] :
        e.phase = "commit" => emitted[n][e] <= 1

\* a PREPARE beyond the threshold has been stored while the COMMIT broadcast
\* of that digest is still suspended in its send loop
C4_PrepareDuringCommitBroadcast ==
    \E n \in Nodes, d \in Digests :
        /\ d \in prepared_digests[n]
        /\ Pending(n, "commit", d)
        /\ Len(prepare_messages[n][d]) > required_votes(n)

\* C5: in every reachable state every committed digest is a prepared digest
C5_CommittedImpliesPrepared ==
    \A n \in Nodes : committed_digests[n] \subseteq prepared_digests[n]

\* C6: on each replica the commit callback is invoked at most once for each
\* digest over the whole run
C6_SinkOncePerDigest ==
    \A n \in Nodes, d \in Digests : SinkCount(n, d) <= 1

\* the callback has run for a digest and either a further COMMIT for it was
\* stored after the latch or it was proposed again
C6_CommitAfterLatch ==
    \E n \in Nodes, d \in Digests :
        /\ SinkCount(n, d) = 1
        /\ \/ Len(commit_messages[n][d]) > required_votes(n)
           \/ single_node_mode(n) /\ sequence_number[n] > Cardinality(Digests)

\* C7: the PREPARE tally of a digest holds each sender at most once
C7_PrepareTallyDistinct ==
    \A n \in Nodes, d \in Digests :
        Len(prepare_messages[n][d]) =
            Cardinality(Senders(prepare_messages[n][d]))

\* C8: a replica whose latest attestation classified it untrusted begins no
\* PREPARE and no COMMIT broadcast
C8_SilentWhenUntrusted ==
    \A n \in Nodes : emitted_untrusted[n] = 0

\* C9: the threshold the PREPARE and COMMIT handlers compare against is the
\* number floor(2(N-1)/3) + 1 for N >= 2 and 1 for N = 1, whatever the peer list
C9_ThresholdFormula ==
    \A n \in Nodes :
        Running(n) =>
            IF app = "cmd"
            THEN required_votes(n) = Quorum(total_nodes)
            ELSE node_required_votes = [type |-> "int",
                                        fget |-> Quorum(total_nodes)]

\* C10: with four honest connected replicas, once the primary has proposed d
\* every replica eventually has d committed and has run the callback for d
\* exactly once
C10_ProposedLeadsToAllCommitted ==
    \A d \in Digests :
        (\E e \in DOMAIN emitted[0] : e.phase = "pre_prepare" /\ e.digest = d)
            ~> (\A n \in Nodes :
                   d \in committed_digests[n] /\ SinkCount(n, d) = 1)

\* C11: with node 3 silent and nodes 0, 1, 2 honest and connected, once node 0
\* has proposed d each of nodes 0, 1, 2 eventually has d committed with the
\* COMMITs of exactly {0, 1, 2}, and node 3 never has d committed
C11_SilentNodeStillCommits ==
    \A d \in Digests :
        /\ (\E e \in DOMAIN emitted[0] : e.phase = "pre_prepare" /\ e.digest = d)
              ~> (\A n \in Nodes \ {SilentNode} :
                     /\ d \in committed_digests[n]
                     /\ CommitSenders(n, d) = Nodes \ {SilentNode})
        /\ [](d \notin committed_digests[SilentNode])

\* C12: with N = 1, propose(d) of a digest not yet committed latches d and
\* invokes the callback exactly once for d, with the sequence number that
\* propose assigned and no contributor but the local node, and no PRE_PREPARE,
\* PREPARE or COMMIT is constructed or sent
C12_SingleNodePropose ==
    \A n \in Nodes :
        total_nodes = 1 =>
            /\ emitted[n] = EmptyBag
            /\ committed_digests[n] =
                   {sink_calls[n][i].digest : i \in DOMAIN sink_calls[n]}
            /\ \A d \in Digests : SinkCount(n, d) <= 1
            /\ \A i \in DOMAIN sink_calls[n] :
                   LET c == sink_calls[n][i]
                   IN /\ c.consensus_round \in 1..sequence_number[n]
                      /\ Senders(c.commit_messages) \subseteq {n}
                      /\ \A j \in DOMAIN c.commit_messages :
                             c.commit_messages[j].phase \notin Phases

\* C13: on a replica whose id differs from view mod N a proposal changes
\* nothing: the sequence number stays 0, no PRE_PREPARE is emitted and the
\* callback is never entered from propose, for every N and every peer list
C13_NonPrimaryProposeRefused ==
    \A n \in Nodes :
        n # view[n] % total_nodes =>
            /\ sequence_number[n] = 0
            /\ Emissions(n, "pre_prepare") = 0
            /\ single_node_mode(n) => sink_calls[n] = <<>>

\* C15: the list of COMMITs handed to the callback holds at least
\* required_votes messages, no sender twice, and the aggregate is made of
\* exactly the signatures of that list
C15_AggregateOnePerSender ==
    \A n \in Nodes : \A i \in DOMAIN sink_calls[n] :
        LET c == sink_calls[n][i]
        IN /\ Len(c.commit_messages) >= required_votes(n)
           /\ Cardinality(Senders(c.commit_messages)) = Len(c.commit_messages)
           /\ ~c.raised
           /\ c.aggregated_sig.of = Signatures(c.commit_messages)

\* C18: in a multi-node configuration a replica that has emitted a PREPARE or
\* a COMMIT for a digest holds its own vote in its own tally of that digest
C18_OwnVoteInOwnTally ==
    \A n \in Nodes : \A e \in DOMAIN emitted[n] :
        ~single_node_mode(n) =>
            /\ e.phase = "prepare" => n \in Senders(prepare_messages[n][e.digest])
            /\ e.phase = "commit" => n \in CommitSenders(n, e.digest)

SinkPos(n, d) == CHOOSE i \in DOMAIN sink_calls[n] : sink_calls[n][i].digest = d

\* C17: two honest replicas that have both committed the same two digests
\* have invoked the callback for them in the same relative order
C17_SameCommitOrder ==
    \A a \in Nodes, b \in Nodes, d \in Digests, e \in Digests :
        ({d, e} \subseteq committed_digests[a] \cap committed_digests[b]) =>
            (SinkPos(a, d) < SinkPos(a, e) <=> SinkPos(b, d) < SinkPos(b, e))

\* C22: every phase message an honest replica has put on the wire in a
\* multi-node configuration carries the fields the receiver requires, the
\* sender's public key included, and a signature that verifies under that key,
\* so that the receiver's decode and signature checks pass
C22_WireFramesAccepted ==
    \A s \in Nodes, r \in Nodes : \A i \in DOMAIN wire[s][r] :
        LET data == wire[s][r][i]
        IN /\ RequiredKeys \cup {"view", "public_key"} \subseteq DOMAIN data
           /\ ~decode_raises(data)
           /\ signature_accepted(r, data)

\* C23: a message whose view differs from the replica's current view is
\* dropped: handling it changes no tally and no latch, emits nothing and does
\* not invoke the callback
C23_OtherViewDropped ==
    [][\A n \in Nodes :
          (\E data \in FrameData(n) :
              /\ get(data, "view", 0) # view[n]
              /\ handle_message(n, data))
          => UNCHANGED nodevars]_vars

\* C24: a message whose sender id is not one of the N configured replicas is
\* rejected: handling it adds nothing to a PREPARE or COMMIT tally and begins
\* no broadcast
C24_UnknownSenderRejected ==
    [][\A n \in Nodes :
          (\E data \in FrameData(n) :
              /\ "node_id" \in DOMAIN data
              /\ data.node_id \notin 0..(total_nodes - 1)
              /\ handle_message(n, data))
          => UNCHANGED <<prepare_messages, commit_messages, emitted>>]_vars

\* C25: a message that lacks one of phase, digest, view, node_id, signature,
\* timestamp, public_key, or names a phase other than pre_prepare, prepare,
\* commit, is dropped: handle_message returns normally and tallies, latches,
\* sequence number and view are unchanged and nothing is emitted
C25_IncompleteFrameDropped ==
    [][\A n \in Nodes :
          (\E data \in FrameData(n) :
              /\ \/ ~(AllKeys \subseteq DOMAIN data)
                 \/ data.phase \notin Phases
              /\ handle_message(n, data))
          => UNCHANGED nodevars]_vars

\* what a replica holds for the agreement instance of digest d
EmittedFor(bag, d) == [e \in {x \in DOMAIN bag : x.digest = d} |-> bag[e]]

SinkCallsFor(calls, d) == SelectSeq(calls, LAMBDA c : c.digest = d)

\* C28: handling a PRE_PREPARE, PREPARE or COMMIT for digest d leaves the
\* PREPARE tally, the COMMIT tally and the prepared and committed latches of
\* every other digest unchanged, and begins no broadcast and no callback for
\* another digest
C28_InstancesIndependent ==
    [][\A n \in Nodes :
          call'.fn = "handle_message" =>
              \A d \in Digests \ {call'.digest} :
                  /\ prepare_messages'[n][d] = prepare_messages[n][d]
                  /\ commit_messages'[n][d] = commit_messages[n][d]
                  /\ (d \in prepared_digests'[n]) = (d \in prepared_digests[n])
                  /\ (d \in committed_digests'[n]) = (d \in committed_digests[n])
                  /\ EmittedFor(emitted'[n], d) = EmittedFor(emitted[n], d)
                  /\ SinkCallsFor(sink_calls'[n], d) = SinkCallsFor(sink_calls[n], d)
      ]_vars

\* witness of C28: a message of one digest has been handled while the instance
\* of the other digest was under way, both having reached the prepared latch
C28_TwoInstancesInFlight ==
    \E n \in Nodes :
        /\ call.fn = "handle_message"
        /\ call.digest \in prepared_digests[n]
        /\ prepared_digests[n] = Digests
        /\ Emissions(n, "commit") = Cardinality(Digests)

\* C26: when the commit callback raises, the digest stays in the committed
\* set, the error stays inside the handler (the handler's step completes) and
\* the replica goes on handling later messages
C26_SinkFailureKeepsLatch ==
    \A n \in Nodes : \A i \in DOMAIN sink_calls[n] :
        sink_calls[n][i].raised =>
            /\ sink_calls[n][i].digest \in committed_digests[n]
            /\ Running(n)

\* witness of C26: in a multi-node configuration the callback has raised for
\* a digest and a COMMIT for it that arrived later has been stored
C26_CommitAfterSinkFailure ==
    \E n \in Nodes : \E i \in DOMAIN sink_calls[n] :
        LET c == sink_calls[n][i]
        IN /\ ~single_node_mode(n)
           /\ c.raised
           /\ Len(commit_messages[n][c.digest]) > Len(c.commit_messages)

\* C27: once a digest is in a replica's prepared set, or in its committed set,
\* it is there in every later state, whatever messages, proposals and callback
\* failures follow
C27_LatchesSticky ==
    [][\A n \in Nodes :
          /\ prepared_digests[n] \subseteq prepared_digests'[n]
          /\ committed_digests[n] \subseteq committed_digests'[n]]_vars

\* witness of C27: a replica in a multi-node configuration holds both digests
\* in a latch, the second latched after the first, and has stored a further
\* vote for a latched digest
C27_LatchedThenMore ==
    \E n \in Nodes :
        /\ ~single_node_mode(n)
        /\ \/ /\ prepared_digests[n] = Digests
              /\ \E d \in Digests :
                    Len(prepare_messages[n][d]) > required_votes(n)
           \/ /\ committed_digests[n] = Digests
              /\ \E d \in Digests :
                    Len(commit_messages[n][d]) > required_votes(n)

\* the sequence numbers replica n assigned to digest d when it proposed it
AssignedSequences(n, d) ==
    {e.sequence : e \in {x \in DOMAIN emitted[n] :
                            x.phase = "pre_prepare" /\ x.digest = d}}

\* C29: the consensus_round recorded with a commit is the sequence number the
\* primary assigned to that digest when it proposed it, also when further
\* proposals were made before the digest committed
C29_RoundIsAssignedSequence ==
    [][\A n \in Nodes :
          Len(sink_calls'[n]) > Len(sink_calls[n]) =>
              LET c == sink_calls'[n][Len(sink_calls'[n])]
              IN (is_primary(n) /\ AssignedSequences(n, c.digest) # {}) =>
                     c.consensus_round \in AssignedSequences(n, c.digest)]_vars

\* a tally with the timestamps left out
Untimed(msgs) == [i \in DOMAIN msgs |-> [msgs[i] EXCEPT !.timestamp = time_ms]]

\* what a run of replica n has gone through, timestamps left out: tallies,
\* latches, broadcasts begun and callback invocations
RunOf(n) ==
    [prepare_messages |-> [d \in Digests |-> Untimed(prepare_messages[n][d])],
     commit_messages |-> [d \in Digests |-> Untimed(commit_messages[n][d])],
     prepared_digests |-> prepared_digests[n],
     committed_digests |-> committed_digests[n],
     emitted |-> emitted[n],
     sink_calls |-> [i \in DOMAIN sink_calls[n] |->
                        [digest |-> sink_calls[n][i].digest,
                         commit_messages |->
                             Untimed(sink_calls[n][i].commit_messages),
                         consensus_round |-> sink_calls[n][i].consensus_round]]]

\* C30: two runs of a replica that receive the same messages, differing in
\* the timestamp fields only, go through the same tallies, latches, broadcasts
\* and callback invocations: the timestamp does not influence acceptance
C30_TimestampIgnored ==
    call = NoCall => RunOf(First) = RunOf(Second)

\* witness of C30: both runs have latched a digest on PREPAREs that carry
\* different timestamps, one of them older than five minutes
C30_DifferentTimestampsSameLatch ==
    /\ call = NoCall
    /\ \E d \in Digests :
          /\ d \in prepared_digests[First] \cap prepared_digests[Second]
          /\ \E i \in DOMAIN prepare_messages[First][d] :
                prepare_messages[First][d][i].timestamp
                    # prepare_messages[Second][d][i].timestamp

\* a handler of replica n for digest d has begun a broadcast and is suspended
\* at one of its sends
Suspended(n, d) ==
    \E i \in DOMAIN tasks[n] : tasks[n][i].data.digest = d

\* a handler of replica n for digest d acts in this step: it stores a vote for
\* d or begins a broadcast for d
HandlerActs(n, d) ==
    \/ prepare_messages'[n][d] # prepare_messages[n][d]
    \/ commit_messages'[n][d] # commit_messages[n][d]
    \/ EmittedFor(emitted'[n], d) # EmittedFor(emitted[n], d)

\* C32: on one node no two handler invocations for the same digest are in
\* progress at the same time: while a handler for d is suspended at an await
\* of its broadcast, no other handler for d runs on that node
C32_HandlersSerialised ==
    [][\A n \in Nodes, d \in Digests :
          Suspended(n, d) => ~HandlerActs(n, d)]_vars

\* the COMMIT broadcasts for digest d among the broadcasts begun
CommitsBegun(bag, d) ==
    BagCardinality([e \in {x \in DOMAIN bag : x.phase = "commit" /\ x.digest = d}
                       |-> bag[e]])

C37_SignVerifyRoundTrip ==
    call.fn = "verify" => (call.ret <=> call.other = call.message)

\* C31: every broadcast attempts a send to each peer that was connected when
\* it began: when the send loop ends, no peer it found in the connection map
\* is left without an attempt, whether sends to other peers failed or the map
\* changed while the loop was suspended at a send
C31_EveryPeerAttempted ==
    [][\A n \in Nodes : \A i \in DOMAIN tasks[n] :
          tasks'[n] = Remove(tasks[n], i)
              => tasks[n][i].targets \subseteq tasks[n][i].attempted]_vars

\* C34: the supervisor of cmd/node.py starts the PBFT state machine only when
\* the initial attestation quote was produced and classifies the local node as
\* trusted, with the simulated TPM as well as with the hardware TPM
C34_StartedOnlyWhenTrusted ==
    [][\A n \in Nodes :
          (app = "cmd" /\ ~started[n] /\ started'[n])
              => trust'[n] = "trusted"]_vars

\* the latest add_trusted_node or quarantine_node call made for node n
LastCallFor(n) ==
    LET mine == SelectSeq(verifier_calls, LAMBDA c : c.node_id = n)
    IN IF mine = <<>> THEN NoCall ELSE mine[Len(mine)]

\* C36: after any sequence of add_trusted_node and quarantine_node calls,
\* verify_node_quote(n, q) returns true only if n has a baseline entry (added
\* and not quarantined since), every PCR of that baseline is in q with the
\* same value, and q's timestamp is within five minutes of now; for a node
\* without an entry it returns false for every quote
C36_QuoteVerifiedAgainstBaseline ==
    (call.fn = "verify_node_quote" /\ call.ret) =>
        LET last == LastCallFor(call.node_id)
            quote == call.quote
        IN /\ last.fn = "add_trusted_node"
           /\ \A pcr \in DOMAIN last.baseline_pcrs :
                 /\ pcr \in DOMAIN quote.pcr_values
                 /\ quote.pcr_values[pcr] = last.baseline_pcrs[pcr]
           /\ Abs(time_ms - quote.timestamp) <= MAX_SKEW_MS

\* witness of C36: a quote of a node that was quarantined and entered again
\* is verified against the baseline of two PCRs it was entered with last
C36_VerifiedAfterReadmission ==
    /\ call.fn = "verify_node_quote"
    /\ call.ret
    /\ \E i \in DOMAIN verifier_calls :
          /\ verifier_calls[i].fn = "quarantine_node"
          /\ verifier_calls[i].node_id = call.node_id
    /\ DOMAIN LastCallFor(call.node_id).baseline_pcrs = {0, 1}

\* the callback of replica n has returned normally for digest d before
Stored(n, d) ==
    \E i \in DOMAIN sink_calls[n] :
        sink_calls[n][i].digest = d /\ ~sink_calls[n][i].raised

\* C35: the commit callback is idempotent in the digest: invoked again for a
\* digest it has stored, it leaves the integrity events and the audit log as
\* they were after the first invocation
C35_SinkIdempotent ==
    [][\A n \in Nodes, d \in Digests :
          (/\ Stored(n, d)
           /\ Len(SinkCallsFor(sink_calls'[n], d))
                 > Len(SinkCallsFor(sink_calls[n], d)))
              => /\ db'.integrity_events = db.integrity_events
                 /\ db'.audit_log = db.audit_log]_vars

\* C33: the reconnect loop is bounded: while the node is not reached the
\* agent makes at most max_retries connection attempts, whatever the way the
\* attempt fails, and a successful connection starts the count again
C33_ReconnectBounded ==
    agent_log.attempts <= max_retries

\* C39: a change of the watched files to a non-empty root r is eventually
\* reported: if the files stay at r and the agent is connected again and
\* again, an integrity_event carrying r is eventually sent
C39_NewRootEventuallySent ==
    \A r \in Roots :
        (<>[](watched = r) /\ []<>(agent.pc = "connected"))
            => <>(r \in agent_log.sent)

(***************************************************************************)
(* Merkle tree and attestation contracts                                   *)
(***************************************************************************)
\* C14: for every non-empty leaf sequence s and every index i with
\* 0 <= i < len(s), verify_proof(s[i], merkle_proof(s, i), merkle_root(s), i)
\* returns true, also where the node of i is promoted unpaired at some level.
C14_ProducedProofVerifies ==
    (call.fn = "verify_proof" /\ call.kind = "as_produced") => call.ret

\* the construction of section 4.1: pair adjacent elements left to right,
\* promote an unpaired last element unchanged, until one element is left
RECURSIVE PairUp(_)
PairUp(level) ==
    IF Len(level) = 0 THEN <<>>
    ELSE IF Len(level) = 1 THEN level
    ELSE <<hash_node(level[1], level[2])>> \o PairUp(SubSeq(level, 3, Len(level)))

RECURSIVE Reduce(_)
Reduce(level) == IF Len(level) = 1 THEN level[1] ELSE Reduce(PairUp(level))

ReferenceRoot(seq) ==
    IF Len(seq) = 0 THEN EmptyBytes
    ELSE Reduce([k \in 1..Len(seq) |-> hash_leaf(seq[k])])

\* C19: merkle_root(s) equals the reference construction (leaf prefix on each
\* leaf, adjacent nodes paired left to right under the node prefix, an unpaired
\* last node promoted unchanged); for length 3 the root is
\* node(node(leaf(s0), leaf(s1)), leaf(s2)).
C19_RootIsReference ==
    call.fn = "merkle_root" =>
        /\ call.ret = ReferenceRoot(call.leaves)
        /\ Len(call.leaves) = 3 =>
              call.ret = hash_node(hash_node(hash_leaf(call.leaves[1]),
                                             hash_leaf(call.leaves[2])),
                                   hash_leaf(call.leaves[3]))

\* witness of C19: the root of a sequence of odd length 3 has been computed
C19_OddLengthRoot ==
    /\ call.fn = "merkle_root"
    /\ Len(call.leaves) = 3
    /\ call.ret[3] = hash_leaf(call.leaves[3])

\* C20: with root and index as produced for s and i, verify_proof returns false
\* when the leaf is replaced by a different value or when an element of
\* merkle_proof(s, i) is replaced by a different value.
C20_ReplacementRejected ==
    (call.fn = "verify_proof" /\ call.kind \in {"leaf_replaced", "proof_replaced"})
        => ~call.ret

\* witness of C20: a proof that verifies as produced is rejected once one of
\* its two elements is replaced
C20_ReplacedProofElement ==
    /\ call.fn = "verify_proof"
    /\ call.kind = "proof_replaced"
    /\ Len(call.proof) = 2
    /\ verify_proof(call.leaf, merkle_proof(call.leaves, call.index),
                    call.root, call.index)
    /\ ~call.ret

\* C21: merkle_root of the empty sequence is the empty byte string;
\* merkle_proof returns the empty list when the sequence is empty or the index
\* is outside 0..len(s)-1, negative indices included; verify_proof(x, [], empty
\* root, 0) is false for every x; and none of these calls raises.
C21_EmptyAndOutOfRange ==
    /\ (call.fn = "merkle_root" /\ call.leaves = <<>>) => call.ret = EmptyBytes
    /\ (call.fn = "merkle_proof"
          /\ (call.leaves = <<>> \/ call.index \notin 0..(Len(call.leaves) - 1)))
            => (~call.raised /\ call.ret = <<>>)
    /\ (call.fn = "verify_proof" /\ call.kind = "empty") => ~call.ret

\* trustLevel(q) of section 4.3
trustLevel(quote) ==
    IF ~quote.sig_ok \/ quote.skew > MAX_SKEW_MS THEN "untrusted"
    ELSE IF ~quote.pcr_match THEN "suspicious"
    ELSE "trusted"

\* C16: a quote is untrusted exactly when its signature fails or its timestamp
\* is more than 5 minutes off; suspicious exactly when the signature verifies,
\* the timestamp is fresh and a sampled PCR deviates; trusted otherwise.
C16_TrustLevelCases ==
    call.fn = "get_node_trust_level" => call.ret = trustLevel(call.quote)

====
